---- MODULE Spec2Model ----
(***************************************************************************)
(* Telemetry ingestion pipeline of forceflow-uk: OpenSkyService            *)
(* (src/src/db/migrate.js, second listing, lines 468-1054) over the        *)
(* assets / flight_events tables of src/src/db/schema.sql.                 *)
(*                                                                         *)
(* JavaScript values are tagged records, strings are sequences of          *)
(* one-character strings, so that toUpperCase, trim and the prefix         *)
(* patterns are computed character by character.  Times are milliseconds   *)
(* on a clock that starts at NowBase; coordinates are in tenths of a       *)
(* degree.                                                                 *)
(***************************************************************************)
EXTENDS Integers, Sequences, FiniteSets, TLC

\* ------------------------------------------------------------ bounds
\* Number of cron ticks the clock may advance.
MaxTicks == 2
\* Number of ingestData invocations that can be in flight at once.
NumProcs == 2
\* Clock value (ms) at service start.
NowBase == 100000000
\* Number of POST /calculate requests that can be in flight at once.
MaxRequests == 1
\* Number of whole hours the clock may advance.
MaxHours == 1
\* Number of clients the connection pool hands out at most.
PoolMax == 2

\* ------------------------------------------------- program constants
\* cron "*/10 * * * * *": one tick every 10 s.
TickMs == 10000
\* timestampMs > now + 60000
FutureSlackMs == 60000
\* timestampMs < now - 86400000
MaxAgeMs == 86400000
\* (expires_in - 300) * 1000
TokenMarginS == 300
\* 60 * 60 * 1000
HourMs == 3600000

\* ---------------------------------------------------- JavaScript values
Null == [t |-> "null"]
\* The value of a property the object does not have.
Undefined == [t |-> "undefined"]
NaN == [t |-> "nan"]
\* A number whose magnitude is beyond the range of Date (8.64e15 ms).
Big == [t |-> "big"]
Num(n) == [t |-> "num", n |-> n]
Str(s) == [t |-> "str", s |-> s]
Bool(b) == [t |-> "bool", b |-> b]

\* ToBoolean: what `!v`, `v &&` and `v ||` test.
Truthy(v) ==
    CASE v.t = "null" -> FALSE
      [] v.t = "undefined" -> FALSE
      [] v.t = "nan" -> FALSE
      [] v.t = "big" -> TRUE
      [] v.t = "num" -> v.n # 0
      [] v.t = "str" -> Len(v.s) > 0
      [] v.t = "bool" -> v.b
      [] v.t = "token" -> TRUE

Lower == <<"a","b","c","d","e","f","g","h","i","j","k","l","m",
           "n","o","p","q","r","s","t","u","v","w","x","y","z">>
UpperL == <<"A","B","C","D","E","F","G","H","I","J","K","L","M",
            "N","O","P","Q","R","S","T","U","V","W","X","Y","Z">>
Digits == <<"0","1","2","3","4","5","6","7","8","9">>

ToUpperChar(c) ==
    IF \E i \in 1..Len(Lower) : Lower[i] = c
    THEN UpperL[CHOOSE i \in 1..Len(Lower) : Lower[i] = c]
    ELSE c

\* String.prototype.toUpperCase
toUpperCase(s) == [i \in 1..Len(s) |-> ToUpperChar(s[i])]

IsSpace(c) == c = " "

RECURSIVE TrimLeft(_)
TrimLeft(s) ==
    IF s # <<>> /\ IsSpace(Head(s)) THEN TrimLeft(Tail(s)) ELSE s

RECURSIVE TrimRight(_)
TrimRight(s) ==
    IF s # <<>> /\ IsSpace(s[Len(s)])
    THEN TrimRight(SubSeq(s, 1, Len(s) - 1))
    ELSE s

\* String.prototype.trim
trim(s) == TrimRight(TrimLeft(s))

\* String.prototype.substring(0, n)
substring0(s, n) == SubSeq(s, 1, IF Len(s) < n THEN Len(s) ELSE n)

IsDigit(c) == \E i \in 1..Len(Digits) : Digits[i] = c
DigitVal(c) == (CHOOSE i \in 1..Len(Digits) : Digits[i] = c) - 1

RECURSIVE DigitsToNat(_)
DigitsToNat(s) ==
    IF s = <<>> THEN 0
    ELSE DigitsToNat(SubSeq(s, 1, Len(s) - 1)) * 10 + DigitVal(s[Len(s)])

RECURSIVE DigitPrefix(_)
DigitPrefix(s) ==
    IF s # <<>> /\ IsDigit(Head(s)) THEN <<Head(s)>> \o DigitPrefix(Tail(s))
    ELSE <<>>

\* parseFloat on integer literals: leading blanks, an optional sign, then
\* the longest run of digits; NaN when there is none.
parseFloat(s) ==
    LET u == TrimLeft(s)
        neg == u # <<>> /\ Head(u) = "-"
        body == IF u # <<>> /\ Head(u) \in {"-", "+"} THEN Tail(u) ELSE u
        ds == DigitPrefix(body)
    IN IF ds = <<>> THEN NaN
       ELSE Num(IF neg THEN 0 - DigitsToNat(ds) ELSE DigitsToNat(ds))

\* ToNumber on a string: the whole trimmed text must be a number.
StringToNumber(s) ==
    LET u == trim(s)
        neg == u # <<>> /\ Head(u) = "-"
        body == IF u # <<>> /\ Head(u) \in {"-", "+"} THEN Tail(u) ELSE u
    IN IF u = <<>> THEN Num(0)
       ELSE IF body # <<>> /\ DigitPrefix(body) = body
            THEN Num(IF neg THEN 0 - DigitsToNat(body) ELSE DigitsToNat(body))
            ELSE NaN

\* ToNumber: the coercion applied by `*` and `<=`.
ToNumber(v) ==
    CASE v.t = "null" -> Num(0)
      [] v.t = "undefined" -> NaN
      [] v.t = "bool" -> Num(IF v.b THEN 1 ELSE 0)
      [] v.t = "str" -> StringToNumber(v.s)
      [] OTHER -> v

\* ------------------------------------------------- OpenSkyService: tables
\* this.militaryPatterns = [/^43C/, /^400/, /^ADF8/, /^ADF9/]
militaryPatterns ==
    << <<"4","3","C">>, <<"4","0","0">>, <<"A","D","F","8">>, <<"A","D","F","9">> >>

\* this.militaryCallsigns = [/^RRR/, /^ASCOT/, /^KNIFE/, /^TARTAN/, /^RESCUE/, /^ROYAL/]
militaryCallsigns ==
    << <<"R","R","R">>, <<"A","S","C","O","T">>, <<"K","N","I","F","E">>,
       <<"T","A","R","T","A","N">>, <<"R","E","S","C","U","E">>,
       <<"R","O","Y","A","L">> >>

\* this.countryCodeMap
countryCodeMap ==
    <<
      [name |-> <<"U","n","i","t","e","d"," ","K","i","n","g","d","o","m">>, iso |-> <<"G","B">>],
      [name |-> <<"G","e","r","m","a","n","y">>, iso |-> <<"D","E">>],
      [name |-> <<"F","r","a","n","c","e">>, iso |-> <<"F","R">>],
      [name |-> <<"N","e","t","h","e","r","l","a","n","d","s">>, iso |-> <<"N","L">>],
      [name |-> <<"B","e","l","g","i","u","m">>, iso |-> <<"B","E">>],
      [name |-> <<"S","w","i","t","z","e","r","l","a","n","d">>, iso |-> <<"C","H">>],
      [name |-> <<"A","u","s","t","r","i","a">>, iso |-> <<"A","T">>],
      [name |-> <<"I","t","a","l","y">>, iso |-> <<"I","T">>],
      [name |-> <<"S","p","a","i","n">>, iso |-> <<"E","S">>],
      [name |-> <<"P","o","l","a","n","d">>, iso |-> <<"P","L">>],
      [name |-> <<"C","z","e","c","h"," ","R","e","p","u","b","l","i","c">>, iso |-> <<"C","Z">>],
      [name |-> <<"S","l","o","v","a","k","i","a">>, iso |-> <<"S","K">>],
      [name |-> <<"H","u","n","g","a","r","y">>, iso |-> <<"H","U">>],
      [name |-> <<"S","l","o","v","e","n","i","a">>, iso |-> <<"S","I">>],
      [name |-> <<"C","r","o","a","t","i","a">>, iso |-> <<"H","R">>],
      [name |-> <<"S","e","r","b","i","a">>, iso |-> <<"R","S">>],
      [name |-> <<"B","o","s","n","i","a"," ","a","n","d"," ","H","e","r","z","e","g","o","v","i","n","a">>, iso |-> <<"B","A">>],
      [name |-> <<"M","o","n","t","e","n","e","g","r","o">>, iso |-> <<"M","E">>],
      [name |-> <<"A","l","b","a","n","i","a">>, iso |-> <<"A","L">>],
      [name |-> <<"N","o","r","t","h"," ","M","a","c","e","d","o","n","i","a">>, iso |-> <<"M","K">>],
      [name |-> <<"B","u","l","g","a","r","i","a">>, iso |-> <<"B","G">>],
      [name |-> <<"R","o","m","a","n","i","a">>, iso |-> <<"R","O">>],
      [name |-> <<"M","o","l","d","o","v","a">>, iso |-> <<"M","D">>],
      [name |-> <<"U","k","r","a","i","n","e">>, iso |-> <<"U","A">>],
      [name |-> <<"B","e","l","a","r","u","s">>, iso |-> <<"B","Y">>],
      [name |-> <<"L","i","t","h","u","a","n","i","a">>, iso |-> <<"L","T">>],
      [name |-> <<"L","a","t","v","i","a">>, iso |-> <<"L","V">>],
      [name |-> <<"E","s","t","o","n","i","a">>, iso |-> <<"E","E">>],
      [name |-> <<"F","i","n","l","a","n","d">>, iso |-> <<"F","I">>],
      [name |-> <<"S","w","e","d","e","n">>, iso |-> <<"S","E">>],
      [name |-> <<"N","o","r","w","a","y">>, iso |-> <<"N","O">>],
      [name |-> <<"D","e","n","m","a","r","k">>, iso |-> <<"D","K">>],
      [name |-> <<"I","c","e","l","a","n","d">>, iso |-> <<"I","S">>],
      [name |-> <<"I","r","e","l","a","n","d">>, iso |-> <<"I","E">>],
      [name |-> <<"P","o","r","t","u","g","a","l">>, iso |-> <<"P","T">>],
      [name |-> <<"L","u","x","e","m","b","o","u","r","g">>, iso |-> <<"L","U">>],
      [name |-> <<"L","i","e","c","h","t","e","n","s","t","e","i","n">>, iso |-> <<"L","I">>],
      [name |-> <<"M","a","l","t","a">>, iso |-> <<"M","T">>],
      [name |-> <<"C","y","p","r","u","s">>, iso |-> <<"C","Y">>],
      [name |-> <<"G","r","e","e","c","e">>, iso |-> <<"G","R">>],
      [name |-> <<"T","u","r","k","e","y">>, iso |-> <<"T","R">>],
      [name |-> <<"R","u","s","s","i","a">>, iso |-> <<"R","U">>],
      [name |-> <<"U","n","i","t","e","d"," ","S","t","a","t","e","s">>, iso |-> <<"U","S">>],
      [name |-> <<"C","a","n","a","d","a">>, iso |-> <<"C","A">>],
      [name |-> <<"M","e","x","i","c","o">>, iso |-> <<"M","X">>]
    >>

\* ---------------------------------------- OpenSkyService: pure functions
\* RegExp /^prefix/.test(s): the pattern is anchored at the first character.
PatternTest(pattern, s) ==
    /\ Len(s) >= Len(pattern)
    /\ \A i \in 1..Len(pattern) : s[i] = pattern[i]

\* patterns.some((pattern) => pattern.test(s))
SomePattern(patterns, s) ==
    \E i \in 1..Len(patterns) : PatternTest(patterns[i], s)

HexMatches(hexCode) ==
    /\ Truthy(hexCode)
    /\ hexCode.t = "str"
    /\ SomePattern(militaryPatterns, toUpperCase(hexCode.s))

\* isMilitaryAircraft raises a TypeError when a truthy value that is not a
\* string reaches .toUpperCase().
isMilitaryAircraftThrows(hexCode, callsign) ==
    \/ Truthy(hexCode) /\ hexCode.t # "str"
    \/ /\ ~HexMatches(hexCode)
       /\ Truthy(callsign) /\ callsign.t # "str"

MutIsMilitaryNoUpper(hexCode, callsign) ==
    \/ /\ Truthy(hexCode)
       /\ SomePattern(militaryPatterns, hexCode.s)
    \/ /\ Truthy(callsign)
       /\ SomePattern(militaryCallsigns, callsign.s)

MutIsMilitaryAnyCallsign(hexCode, callsign) ==
    \/ /\ Truthy(hexCode)
       /\ SomePattern(militaryPatterns, toUpperCase(hexCode.s))
    \/ Truthy(callsign)

\* isMilitaryAircraft(hexCode, callsign), for arguments it does not throw on.
isMilitaryAircraft(hexCode, callsign) ==
    \/ /\ Truthy(hexCode)
       /\ SomePattern(militaryPatterns, toUpperCase(hexCode.s))
    \/ /\ Truthy(callsign)
       /\ SomePattern(militaryCallsigns, toUpperCase(callsign.s))

\* getCountryCode raises a TypeError when a truthy value has no
\* substring/toUpperCase method (number, boolean).
getCountryCodeThrows(countryName) ==
    Truthy(countryName) /\ countryName.t # "str"

\* getCountryCode(countryName), for arguments it does not throw on.
getCountryCode(countryName) ==
    IF ~Truthy(countryName) THEN Null
    ELSE IF Len(countryName.s) = 2 THEN Str(toUpperCase(countryName.s))
    ELSE IF \E i \in 1..Len(countryCodeMap) : countryCodeMap[i].name = countryName.s
    THEN Str(countryCodeMap[CHOOSE i \in 1..Len(countryCodeMap) :
                                countryCodeMap[i].name = countryName.s].iso)
    ELSE Str(toUpperCase(substring0(countryName.s, 2)))

\* Math.round on the numbers of the model (all integral).
MathRound(v) == v

\* safeInteger(value)
safeInteger(value) ==
    CASE value.t = "null" -> Null
      [] value.t \in {"num", "nan", "big"} -> MathRound(value)
      [] value.t = "str" ->
           LET parsed == parseFloat(value.s)
           IN IF parsed.t = "nan" THEN Null ELSE MathRound(parsed)
      [] OTHER -> Null

MutSafeFloatKeepsNaN(value) ==
    CASE value.t = "null" -> Null
      [] value.t \in {"num", "nan", "big"} -> value
      [] value.t = "str" -> parseFloat(value.s)
      [] OTHER -> Null

\* safeFloat(value)
safeFloat(value) ==
    CASE value.t = "null" -> Null
      [] value.t \in {"num", "nan", "big"} -> value
      [] value.t = "str" ->
           LET parsed == parseFloat(value.s)
           IN IF parsed.t = "nan" THEN Null ELSE parsed
      [] OTHER -> Null

\* new Date(lastContact * 1000).getTime(): NaN for an Invalid Date.
DateMs(lastContact) ==
    LET x == ToNumber(lastContact)
    IN IF x.t = "num" THEN Num(x.n * 1000) ELSE NaN

\* lastContact <= 0
LeqZero(lastContact) ==
    LET x == ToNumber(lastContact)
    IN x.t = "num" /\ x.n <= 0

\* if (!lastContact || lastContact <= 0)
InvalidTimestamp(lastContact) ==
    ~Truthy(lastContact) \/ LeqZero(lastContact)

MutUnreasonableNoPast(timestampMs, clock) ==
    timestampMs.t = "num" /\ timestampMs.n > clock + FutureSlackMs

\* if (timestampMs > now + 60000 || timestampMs < now - 86400000);
\* every comparison with NaN is false.
UnreasonableTimestamp(timestampMs, clock) ==
    /\ timestampMs.t = "num"
    /\ \/ timestampMs.n > clock + FutureSlackMs
       \/ timestampMs.n < clock - MaxAgeMs

\* ------------------------------------------------------ feed universe
\* One upstream state vector: the first twelve positions of the tuple that
\* processStates destructures (sensors and later positions are never read).
Tuple(icao24, callsign, originCountry, lastContact, longitude, latitude, baroAltitude, onGround, velocity, trueTrack, verticalRate) ==
    [t |-> "tuple", icao24 |-> icao24, callsign |-> callsign,
     originCountry |-> originCountry, lastContact |-> lastContact,
     longitude |-> longitude, latitude |-> latitude,
     baroAltitude |-> baroAltitude, onGround |-> onGround,
     velocity |-> velocity, trueTrack |-> trueTrack,
     verticalRate |-> verticalRate]

BaseSec == NowBase \div 1000

Hex43C001 == Str(<<"4","3","C","0","0","1">>)
Hex43c001 == Str(<<"4","3","c","0","0","1">>)
Hex43C002 == Str(<<"4","3","C","0","0","2">>)
HexAABBCC == Str(<<"A","A","B","B","C","C">>)
HexAABBDD == Str(<<"A","A","B","B","D","D">>)
CsAscot == Str(<<"A","S","C","O","T","1"," "," ">>)
CsRrrLower == Str(<<"r","r","r","4","4","2","1">>)
CsSpeedbird == Str(<<"S","P","E","E","D","B","I","R","D","1","2","3">>)
CsBlank == Str(<<" "," ">>)
UnitedKingdom == Str(<<"U","n","i","t","e","d"," ","K","i","n","g","d","o","m">>)
Germany == Str(<<"G","e","r","m","a","n","y">>)

\* identifier 43C001, lat 51.5, lon -0.1, last contact 5 s before start.
MilRec ==
    Tuple(Hex43C001, Null, UnitedKingdom, Num(BaseSec - 5), Num(-1), Num(515),
          Num(10000), Bool(FALSE), Num(200), Num(90), Num(0))
\* a civilian identifier with a civilian callsign.
CivRec ==
    Tuple(HexAABBCC, CsSpeedbird, UnitedKingdom, Num(BaseSec - 5), Num(-20),
          Num(530), Num(11000), Bool(FALSE), Num(230), Num(180), Num(0))
\* the same aircraft and instant as MilRec in lower case, with a padded
\* callsign, another country and other kinematics.
UpdRec ==
    Tuple(Hex43c001, CsAscot, Germany, Num(BaseSec - 5), Num(-2), Num(520),
          Str(<<"9","0","0","0">>), Bool(TRUE), Null, Str(<<"x">>), Num(-3))
\* a later sighting of 43C001 whose callsign is blank.
BlankCsRec ==
    Tuple(Hex43C001, CsBlank, Null, Str(<<"9","9","9","9","8">>), Num(-3),
          Num(521), Null, Null, Null, Null, Null)
\* a civilian identifier flying under a military callsign.
CsMilRec ==
    Tuple(HexAABBDD, CsRrrLower, Null, Num(BaseSec - 5), Num(-20), Num(530),
          Null, Null, Null, Null, Null)
\* origin country delivered as a number.
BadCountryRec ==
    Tuple(Hex43C002, Null, Num(826), Num(BaseSec - 5), Num(-1), Num(515),
          Null, Null, Null, Null, Null)
\* latitude delivered as text that is no number.
LatTextRec ==
    Tuple(Hex43C001, Null, Null, Num(BaseSec - 5), Num(-1), Str(<<"n","/","a">>),
          Null, Null, Null, Null, Null)
\* a position on the Greenwich meridian.
ZeroLonRec ==
    Tuple(Hex43C002, Null, UnitedKingdom, Num(BaseSec - 5), Num(0), Num(515),
          Null, Null, Null, Null, Null)
\* last-contact values, all for aircraft 43C002.
LcRec(lastContact) ==
    Tuple(Hex43C002, Null, UnitedKingdom, lastContact, Num(-1), Num(515),
          Null, Null, Null, Null, Null)

\* a state vector that is not iterable (null in the states array).
Malformed == Null

ScenarioBatch == <<MilRec, CivRec>>
UpdateBatch == <<UpdRec, BlankCsRec, CsMilRec>>
IsolationBatch == <<Malformed, LatTextRec, ZeroLonRec, MilRec>>
CountryBatch == <<BadCountryRec, MilRec>>
WindowBatch ==
    << LcRec(Null), LcRec(Num(0)), LcRec(Num(-5)),
       LcRec(Num(BaseSec - 90000)),
       LcRec(Num(BaseSec - 86400 + 10)),
       LcRec(Num(BaseSec + 70)),
       LcRec(Str(<<"a","b","c">>)), MilRec >>
FarFutureBatch == <<LcRec(Big), MilRec>>

\* What a 200 response of the feed can carry in `states`.
Batches ==
    { <<>>, ScenarioBatch, UpdateBatch, IsolationBatch, CountryBatch,
      WindowBatch, FarFutureBatch }

\* The feed of the runs in which invocations overlap.
ConcurrentBatches == { ScenarioBatch, <<UpdRec>> }

\* A feed with one snapshot for each way processStates can end.
ExitBatches == { <<>>, <<MilRec, UpdRec, CivRec>>, <<MilRec, BadCountryRec>> }

\* Status of a failed feed request; 0 stands for no response (timeout).
FeedErrors == {0, 401, 429, 500}
\* Status of a settled feed request.
FeedStatuses == {200} \cup FeedErrors

\* expires_in values of the token endpoint.
ExpiresIn == {320}

\* expires_in of an arbitrary answer: longer than the margin, equal to it,
\* or missing from the body.
AnyExpiresIn == {Num(320), Num(300), Undefined}

\* --------------------------------------------------------------- state
VARIABLES
    isRunning,      \* this.isRunning
    lastRun,        \* this.lastRun: Null or the clock value of the last success
    accessToken,    \* this.accessToken
    tokenExpiry,    \* this.tokenExpiry
    clientCreds,    \* clientId and clientSecret are both configured
    basicCreds,     \* username and password are both configured
    now,            \* Date.now()
    timerPending,   \* the setTimeout of start() has not fired yet
    assets,         \* committed rows of table assets
    flight_events,  \* committed rows of table flight_events
    pc,             \* where each ingestData invocation is suspended
    states,         \* processStates: the states array
    idx,            \* processStates: position of the for-of loop
    assetId,        \* processStates: assetId of the current record
    isMilitary,     \* processStates: const isMilitary (Null before it is set)
    nowAt,          \* processStates: const now = Date.now()
    tx,             \* uncommitted writes of the invocation's transaction
    counters,       \* processStates: processed, militaryCount, errors
    auth,           \* fetchStates: credentials attached to the request config
    reply,          \* fetchStates: status the feed answers the pending request with
    unhandled,      \* the process has seen an unhandled promise rejection
    checkedOut,     \* fastify.pg: clients connected and not released
    tempo_scores,   \* rows of table tempo_scores
    tpc,            \* where each POST /calculate handler is suspended
    tnow,           \* POST /calculate: const now (ms)
    tcount          \* POST /calculate: count column of the query results

serviceVars == <<isRunning, lastRun, accessToken, tokenExpiry>>
configVars == <<clientCreds, basicCreds>>
clockVars == <<now, timerPending>>
dbVars == <<assets, flight_events>>
localVars == <<pc, states, idx, assetId, isMilitary, nowAt, tx, counters, auth, reply>>
tempoVars == <<tempo_scores, tpc, tnow, tcount>>
ingestVars == <<serviceVars, configVars, dbVars, localVars, unhandled>>
vars == <<serviceVars, configVars, clockVars, dbVars, localVars, unhandled,
          checkedOut, tempoVars>>

Procs == 1..NumProcs

\* POST /calculate requests that can be in flight at once.
Requests == 1..MaxRequests

\* The handler has no query result yet.
NoCounts == [flight |-> Null, ship |-> Null, notam |-> Null, exercise |-> Null]

EmptyTx == [assets |-> {}, upd |-> {}, events |-> {}]
ZeroCounters == [processed |-> 0, militaryCount |-> 0, errors |-> 0]

\* The bearer token the endpoint issues at a given instant.
Token(clock) == [t |-> "token", at |-> clock]

Init ==
    /\ isRunning = FALSE
    /\ lastRun = Null
    /\ accessToken = Null
    /\ tokenExpiry = Null
    /\ clientCreds \in BOOLEAN
    /\ basicCreds \in BOOLEAN
    /\ now = NowBase
    /\ timerPending = TRUE
    /\ assets = {}
    /\ flight_events = {}
    /\ pc = [p \in Procs |-> "idle"]
    /\ states = [p \in Procs |-> <<>>]
    /\ idx = [p \in Procs |-> 0]
    /\ assetId = [p \in Procs |-> 0]
    /\ isMilitary = [p \in Procs |-> Null]
    /\ nowAt = [p \in Procs |-> 0]
    /\ tx = [p \in Procs |-> EmptyTx]
    /\ counters = [p \in Procs |-> ZeroCounters]
    /\ auth = [p \in Procs |-> "none"]
    /\ reply = [p \in Procs |-> Null]
    /\ unhandled = FALSE
    /\ checkedOut = 0
    /\ tempo_scores = {}
    /\ tpc = [r \in Requests |-> "idle"]
    /\ tnow = [r \in Requests |-> 0]
    /\ tcount = [r \in Requests |-> NoCounts]

\* ------------------------------------------------------- local moves
\* The invocation moves to another await inside the record loop.
Goto(p, newPc, newIdx, newAssetId, newNowAt, newTx, newCounters) ==
    /\ pc' = [pc EXCEPT ![p] = newPc]
    /\ idx' = [idx EXCEPT ![p] = newIdx]
    /\ assetId' = [assetId EXCEPT ![p] = newAssetId]
    /\ nowAt' = [nowAt EXCEPT ![p] = newNowAt]
    /\ tx' = [tx EXCEPT ![p] = newTx]
    /\ counters' = [counters EXCEPT ![p] = newCounters]

\* The invocation returns: its locals are gone.
Return(p) ==
    /\ pc' = [pc EXCEPT ![p] = "idle"]
    /\ states' = [states EXCEPT ![p] = <<>>]
    /\ idx' = [idx EXCEPT ![p] = 0]
    /\ assetId' = [assetId EXCEPT ![p] = 0]
    /\ isMilitary' = [isMilitary EXCEPT ![p] = Null]
    /\ nowAt' = [nowAt EXCEPT ![p] = 0]
    /\ tx' = [tx EXCEPT ![p] = EmptyTx]
    /\ counters' = [counters EXCEPT ![p] = ZeroCounters]
    /\ auth' = [auth EXCEPT ![p] = "none"]
    /\ reply' = [reply EXCEPT ![p] = Null]

MutIngestFailedKeepFlag(p) ==
    /\ UNCHANGED <<isRunning, lastRun, unhandled>>
    /\ Return(p)

MutIngestFailedRethrows(p) ==
    /\ isRunning' = FALSE
    /\ unhandled' = TRUE
    /\ UNCHANGED lastRun
    /\ Return(p)

MutIngestFailedSetsLastRun(p) ==
    /\ isRunning' = FALSE
    /\ lastRun' = Num(now)
    /\ UNCHANGED unhandled
    /\ Return(p)

\* ingestData: catch (error) { log } finally { this.isRunning = false }
\* The catch block does not rethrow: the promise of ingestData resolves.
IngestFailed(p) ==
    /\ isRunning' = FALSE
    /\ UNCHANGED <<lastRun, unhandled>>
    /\ Return(p)

\* ingestData: processStates returned; this.lastRun = ...; finally.
IngestSucceeded(p) ==
    /\ lastRun' = Num(now)
    /\ isRunning' = FALSE
    /\ UNCHANGED unhandled
    /\ Return(p)

\* `continue` / end of the loop body: the next record's BEGIN is issued, or
\* the loop ends, the client is released (finally) and processStates returns.
Continue(p, newCounters) ==
    IF idx[p] < Len(states[p])
    THEN /\ Goto(p, "begin", idx[p] + 1, 0, 0, EmptyTx, newCounters)
         /\ isMilitary' = [isMilitary EXCEPT ![p] = Null]
         /\ UNCHANGED <<isRunning, lastRun, states, auth, reply, unhandled,
                        checkedOut>>
    ELSE /\ IngestSucceeded(p)
         /\ checkedOut' = checkedOut - 1

Bump(c, field) == [c EXCEPT ![field] = @ + 1]

\* The record the loop is at.
Current(p) == states[p][idx[p]]

\* ------------------------------------------------ triggers and fetchStates
MutTokenValidNever(clock) == FALSE

\* getAccessToken: accessToken && tokenExpiry && Date.now() < tokenExpiry
TokenValid(clock) ==
    /\ Truthy(accessToken)
    /\ Truthy(tokenExpiry)
    /\ clock < tokenExpiry.n

\* The invocation slot a new call of ingestData runs in.
FreeSlot == CHOOSE p \in Procs : pc[p] = "idle" /\ \A q \in Procs : q < p => pc[q] # "idle"

\* ingestData past its guard, up to the first await: fetchStates and
\* getAccessToken up to the request each of them issues.
\* fetchStates: axios.get(url, config) is issued with the credentials `mode`;
\* the answer of the feed is in flight from here on.
SendGet(p, mode) ==
    /\ pc' = [pc EXCEPT ![p] = "get"]
    /\ auth' = [auth EXCEPT ![p] = mode]
    /\ \E status \in FeedStatuses : reply' = [reply EXCEPT ![p] = Num(status)]

StartCycle(clock) ==
    LET p == FreeSlot IN
    /\ isRunning' = TRUE
    /\ IF TokenValid(clock)
       THEN SendGet(p, "bearer")
       ELSE IF ~clientCreds
       THEN SendGet(p, "none")
       ELSE /\ pc' = [pc EXCEPT ![p] = "post"]
            /\ UNCHANGED <<auth, reply>>
    /\ UNCHANGED <<lastRun, accessToken, tokenExpiry, states, idx, assetId,
                   isMilitary, nowAt, tx, counters, unhandled>>

MutIngestDataNoGuard(clock) == StartCycle(clock)

\* ingestData: if (this.isRunning) { log; return } this.isRunning = true; ...
ingestData(clock) ==
    IF isRunning
    THEN UNCHANGED <<serviceVars, localVars, unhandled>>
    ELSE StartCycle(clock)

\* cron.schedule("*/10 * * * * *", async () => { await this.ingestData() })
CronTick ==
    /\ now < NowBase + MaxTicks * TickMs
    /\ timerPending => now = NowBase
    /\ isRunning \/ \E p \in Procs : pc[p] = "idle"
    /\ now' = now + TickMs
    /\ UNCHANGED timerPending
    /\ ingestData(now')
    /\ UNCHANGED <<configVars, dbVars, checkedOut, tempoVars>>

\* setTimeout(() => { this.ingestData() }, 5000)
InitialTimer ==
    /\ timerPending
    /\ isRunning \/ \E p \in Procs : pc[p] = "idle"
    /\ timerPending' = FALSE
    /\ UNCHANGED now
    /\ ingestData(now)
    /\ UNCHANGED <<configVars, dbVars, checkedOut, tempoVars>>

\* this.tokenExpiry = Date.now() + (response.data.expires_in - 300) * 1000
ExpiryOf(clock, expires_in) ==
    LET n == ToNumber(expires_in)
    IN IF n.t = "num" THEN Num(clock + (n.n - TokenMarginS) * 1000) ELSE NaN

\* response.data of the token endpoint's well-formed answers; access_token
\* tells whether the body has the property.
TokenBodies == {[access_token |-> TRUE, expires_in |-> Num(e)] : e \in ExpiresIn}

MutFallbackAnonymous == "none"

\* fetchStates, catch (tokenError): basic auth when username and password
\* are configured, anonymous access otherwise.
FallbackMode == IF basicCreds THEN "basic" ELSE "none"

\* getAccessToken after axios.post settles, then fetchStates up to axios.get;
\* `bodies` is what a 200 answer of the token endpoint can carry.
Exchange(p, bodies) ==
    /\ pc[p] = "post"
    /\ \/ \E data \in bodies :
            /\ accessToken' = IF data.access_token THEN Token(now) ELSE Undefined
            /\ tokenExpiry' = ExpiryOf(now, data.expires_in)
            /\ SendGet(p, IF Truthy(accessToken') THEN "bearer" ELSE "none")
       \/ /\ accessToken' = Null
          /\ tokenExpiry' = Null
          /\ SendGet(p, FallbackMode)
    /\ UNCHANGED <<isRunning, lastRun, configVars, clockVars, dbVars,
                   checkedOut, tempoVars, states,
                   idx, assetId, isMilitary, nowAt, tx, counters, unhandled>>

TokenResponse(p) == Exchange(p, TokenBodies)

\* response.data of an arbitrary 200 answer of the token endpoint.
AnyTokenBodies == [access_token : BOOLEAN, expires_in : AnyExpiresIn]

\* The same handler against arbitrary answers of the token endpoint.
TokenResponseAny(p) == Exchange(p, AnyTokenBodies)

\* fetchStates after axios.get settles, then ingestData up to
\* fastify.pg.connect() in processStates; `feed` is what a 200 response
\* can carry.
MutUnauthorizedNever(status) == FALSE

\* if (error.response.status === 401)
Unauthorized(status) == status = 401

Respond(p, feed) ==
    /\ pc[p] = "get"
    /\ IF reply[p].n = 200
       THEN \E batch \in feed :
            IF batch = <<>>
            THEN /\ IngestSucceeded(p)
                 /\ UNCHANGED <<accessToken, tokenExpiry>>
            ELSE /\ pc' = [pc EXCEPT ![p] = "connect"]
                 /\ states' = [states EXCEPT ![p] = batch]
                 /\ reply' = [reply EXCEPT ![p] = Null]
                 /\ UNCHANGED <<serviceVars, idx, assetId, isMilitary, nowAt,
                                tx, counters, auth, unhandled>>
       ELSE /\ IF Unauthorized(reply[p].n)
               THEN accessToken' = Null /\ tokenExpiry' = Null
               ELSE UNCHANGED <<accessToken, tokenExpiry>>
            /\ IngestFailed(p)
    /\ UNCHANGED <<configVars, clockVars, dbVars, checkedOut, tempoVars>>

FeedResponse(p) == Respond(p, Batches)

\* The same handler against a feed of two snapshots of one aircraft.
FeedResponseSmall(p) == Respond(p, ConcurrentBatches)

\* The same handler against the feed of ExitBatches.
FeedResponseExit(p) == Respond(p, ExitBatches)

\* processStates after fastify.pg.connect() settles, up to the first BEGIN.
Connect(p) ==
    /\ pc[p] = "connect"
    /\ \/ /\ Goto(p, "begin", 1, 0, 0, EmptyTx, ZeroCounters)
          /\ checkedOut' = checkedOut + 1
          /\ UNCHANGED <<isRunning, lastRun, states, isMilitary, auth, reply,
                         unhandled>>
       \/ /\ IngestFailed(p)
          /\ UNCHANGED checkedOut
    /\ UNCHANGED <<accessToken, tokenExpiry, configVars, clockVars, dbVars,
                   tempoVars>>

\* ------------------------------------------------------- durable store
MutNoUniqueViolation(code) == FALSE

\* assets.code TEXT UNIQUE NOT NULL: a committed row already has the code.
UniqueViolation(code) == \E a \in assets : a.code = code

\* An INSERT whose key is held by another open transaction waits for it.
AssetInsertWaits(p, code) ==
    \E q \in Procs \ {p} : \E a \in tx[q].assets : a.code = code

\* An UPDATE of a row another open transaction has updated waits for it.
AssetUpdateWaits(p, id) ==
    \E q \in Procs \ {p} : \E u \in tx[q].upd : u.id = id

EventInsertWaits(p, asset_id, ts) ==
    \E q \in Procs \ {p} :
        \E e \in tx[q].events : e.asset_id = asset_id /\ e.ts = ts

Max(S) == IF S = {} THEN 0 ELSE CHOOSE m \in S : \A n \in S : n <= m

\* id UUID DEFAULT gen_random_uuid(): a value no row has.
FreshAssetId ==
    1 + Max({a.id : a \in assets}
            \cup UNION {{a.id : a \in tx[q].assets} : q \in Procs})

FreshEventId(events) == 1 + Max({e.id : e \in events})

SameKey(e, row) == e.asset_id = row.asset_id /\ e.ts = row.ts

MutPlainInsert(events, row) ==
    events \cup {[id |-> FreshEventId(events)] @@ row}

MutUpsertKeepsFirst(events, row) ==
    IF \E e \in events : SameKey(e, row)
    THEN events
    ELSE events \cup {[id |-> FreshEventId(events)] @@ row}

\* INSERT INTO flight_events ... ON CONFLICT (asset_id, ts) DO UPDATE SET ...
UpsertEvent(events, row) ==
    IF \E e \in events : SameKey(e, row)
    THEN {IF SameKey(e, row) THEN [id |-> e.id] @@ row ELSE e : e \in events}
    ELSE events \cup {[id |-> FreshEventId(events)] @@ row}

\* UPDATE assets SET callsign = $1, updated_at = NOW() WHERE id = $2
ApplyUpdate(a, upds) ==
    IF \E u \in upds : u.id = a.id
    THEN [a EXCEPT !.callsign = (CHOOSE u \in upds : u.id = a.id).callsign]
    ELSE a

\* COMMIT: the transaction's writes become visible.
CommitAssets(t) == {ApplyUpdate(a, t.upd) : a \in assets} \cup t.assets

RECURSIVE CommitEvents(_, _)
CommitEvents(events, rows) ==
    IF rows = {} THEN events
    ELSE LET row == CHOOSE r \in rows : TRUE
         IN CommitEvents(UpsertEvent(events, row), rows \ {row})

\* ---------------------------------------------------- processStates
\* if (!latitude || !longitude || !icao24)
PositionMissing(rec) ==
    \/ ~Truthy(rec.latitude)
    \/ ~Truthy(rec.longitude)
    \/ ~Truthy(rec.icao24)

\* callsign?.trim() || null  (a TypeError when callsign has no trim method)
InsertCallsignThrows(callsign) == callsign.t \notin {"null", "str"}
InsertCallsign(callsign) ==
    IF callsign.t = "str" /\ trim(callsign.s) # <<>>
    THEN Str(trim(callsign.s))
    ELSE Null

MutUpdatesCallsignUntrimmed(callsign) ==
    Truthy(callsign)

\* if (callsign && callsign.trim())
UpdatesCallsign(callsign) ==
    Truthy(callsign) /\ trim(callsign.s) # <<>>
UpdateCallsignThrows(callsign) == Truthy(callsign) /\ callsign.t # "str"

\* onGround || false
OrFalse(onGround) == IF Truthy(onGround) THEN onGround ELSE Bool(FALSE)

\* The catch handler's "Aircraft details" object calls
\* getCountryCode(originCountry) and new Date(lastContact * 1000).toISOString()
\* again; either can raise inside the handler.
LogThrows(rec) ==
    /\ rec.t = "tuple"
    /\ \/ getCountryCodeThrows(rec.originCountry)
       \/ Truthy(rec.lastContact) /\ DateMs(rec.lastContact).t # "num"

\* The parameters of the flight_events INSERT.
EventRow(asset_id, rec) ==
    [asset_id |-> asset_id,
     ts |-> DateMs(rec.lastContact),
     lat |-> safeFloat(rec.latitude),
     lon |-> safeFloat(rec.longitude),
     alt |-> safeInteger(rec.baroAltitude),
     velocity |-> safeFloat(rec.velocity),
     heading |-> safeFloat(rec.trueTrack),
     vertical_rate |-> safeFloat(rec.verticalRate),
     on_ground |-> OrFalse(rec.onGround)]

\* The store refuses the row: ts is an Invalid Date, or lat / lon
\* (REAL NOT NULL) is null.
EventRowRefused(row) ==
    \/ row.ts.t # "num"
    \/ row.lat.t = "null"
    \/ row.lon.t = "null"

\* An exception inside the per-record try: the handler's ROLLBACK is issued.
Throw(p, newCounters) ==
    Goto(p, "catch", idx[p], assetId[p], nowAt[p], tx[p], newCounters)

\* Timestamp validation after the asset is resolved, up to the next query.
Validate(p, id, newTx) ==
    LET lastContact == Current(p).lastContact IN
    IF InvalidTimestamp(lastContact)
    THEN Goto(p, "rollback", idx[p], id, 0, newTx, counters[p])
    ELSE IF UnreasonableTimestamp(DateMs(lastContact), now)
    THEN Goto(p, "rollback", idx[p], id, now, newTx, counters[p])
    ELSE Goto(p, "insert_event", idx[p], id, now, newTx, counters[p])

\* BEGIN has run; destructuring, the position check, the classification gate
\* and getCountryCode follow without another await.
Begin(p) ==
    /\ pc[p] = "begin"
    /\ LET rec == Current(p)
           military == Bump(counters[p], "militaryCount")
       IN IF rec.t # "tuple"
          THEN Throw(p, counters[p]) /\ UNCHANGED isMilitary
          ELSE IF PositionMissing(rec)
          THEN /\ Goto(p, "rollback", idx[p], 0, 0, EmptyTx, counters[p])
               /\ UNCHANGED isMilitary
          ELSE IF isMilitaryAircraftThrows(rec.icao24, rec.callsign)
          THEN Throw(p, counters[p]) /\ UNCHANGED isMilitary
          ELSE /\ isMilitary' = [isMilitary EXCEPT ![p] =
                      Bool(isMilitaryAircraft(rec.icao24, rec.callsign))]
               /\ IF ~isMilitaryAircraft(rec.icao24, rec.callsign)
                  THEN Goto(p, "rollback", idx[p], 0, 0, EmptyTx, counters[p])
                  ELSE IF getCountryCodeThrows(rec.originCountry)
                  THEN Throw(p, military)
                  ELSE Goto(p, "select", idx[p], 0, 0, EmptyTx, military)
    /\ UNCHANGED <<serviceVars, configVars, clockVars, dbVars, checkedOut,
                   tempoVars, states, auth,
                   reply, unhandled>>

\* SELECT id FROM assets WHERE code = $1 has run.
Select(p) ==
    /\ pc[p] = "select"
    /\ LET rec == Current(p)
           rows == {a \in assets : a.code = toUpperCase(rec.icao24.s)}
       IN \/ /\ rows = {}
             /\ IF InsertCallsignThrows(rec.callsign)
                THEN Throw(p, counters[p])
                ELSE Goto(p, "insert_asset", idx[p], 0, 0, tx[p], counters[p])
          \/ \E row \in rows :
                IF UpdateCallsignThrows(rec.callsign)
                THEN Throw(p, counters[p])
                ELSE IF UpdatesCallsign(rec.callsign)
                THEN Goto(p, "update_asset", idx[p], row.id, 0, tx[p],
                          counters[p])
                ELSE Validate(p, row.id, tx[p])
    /\ UNCHANGED <<serviceVars, configVars, clockVars, dbVars, checkedOut,
                   tempoVars, states,
                   isMilitary, auth, reply, unhandled>>

\* INSERT INTO assets (type, code, callsign, country_code) ... RETURNING id
InsertAsset(p) ==
    /\ pc[p] = "insert_asset"
    /\ LET rec == Current(p)
           code == toUpperCase(rec.icao24.s)
           row == [id |-> FreshAssetId, type |-> "aircraft", code |-> code,
                   callsign |-> InsertCallsign(rec.callsign),
                   country_code |-> getCountryCode(rec.originCountry)]
       IN \/ /\ ~AssetInsertWaits(p, code)
             /\ IF UniqueViolation(code)
                THEN Throw(p, counters[p])
                ELSE Validate(p, row.id, [tx[p] EXCEPT !.assets = {row}])
    /\ UNCHANGED <<serviceVars, configVars, clockVars, dbVars, checkedOut,
                   tempoVars, states,
                   isMilitary, auth, reply, unhandled>>

\* UPDATE assets SET callsign = $1, updated_at = NOW() WHERE id = $2
UpdateAsset(p) ==
    /\ pc[p] = "update_asset"
    /\ LET rec == Current(p)
           upd == [id |-> assetId[p], callsign |-> Str(trim(rec.callsign.s))]
       IN \/ /\ ~AssetUpdateWaits(p, assetId[p])
             /\ Validate(p, assetId[p], [tx[p] EXCEPT !.upd = {upd}])
    /\ UNCHANGED <<serviceVars, configVars, clockVars, dbVars, checkedOut,
                   tempoVars, states,
                   isMilitary, auth, reply, unhandled>>

\* INSERT INTO flight_events ... ON CONFLICT (asset_id, ts) DO UPDATE SET ...
\* The first disjunct is a transient store error on this query.
InsertEvent(p) ==
    /\ pc[p] = "insert_event"
    /\ LET row == EventRow(assetId[p], Current(p))
       IN \/ Throw(p, counters[p])
          \/ /\ EventRowRefused(row)
             /\ Throw(p, counters[p])
          \/ /\ ~EventRowRefused(row)
             /\ ~EventInsertWaits(p, row.asset_id, row.ts)
             /\ Goto(p, "commit", idx[p], assetId[p], nowAt[p],
                     [tx[p] EXCEPT !.events = {row}], counters[p])
    /\ UNCHANGED <<serviceVars, configVars, clockVars, dbVars, checkedOut,
                   tempoVars, states,
                   isMilitary, auth, reply, unhandled>>

\* COMMIT; processed++
Commit(p) ==
    /\ pc[p] = "commit"
    /\ \/ /\ assets' = CommitAssets(tx[p])
          /\ flight_events' = CommitEvents(flight_events, tx[p].events)
          /\ Continue(p, Bump(counters[p], "processed"))
    /\ UNCHANGED <<accessToken, tokenExpiry, configVars, clockVars, tempoVars>>

MutRollbackKeepsAssets(p) ==
    /\ pc[p] = "rollback"
    /\ Continue(p, counters[p])
    /\ assets' = CommitAssets(tx[p])
    /\ UNCHANGED <<accessToken, tokenExpiry, configVars, clockVars,
                   flight_events, tempoVars>>

\* ROLLBACK; continue  (a record rejected by validation or classification)
Rollback(p) ==
    /\ pc[p] = "rollback"
    /\ Continue(p, counters[p])
    /\ UNCHANGED <<accessToken, tokenExpiry, configVars, clockVars, dbVars,
                   tempoVars>>

\* catch (stateError): ROLLBACK, errors++, the two log.error calls, continue.
\* An exception raised while building the log object leaves the loop:
\* the outer catch rethrows, finally releases the client, and ingestData's
\* catch and finally run.
Catch(p) ==
    /\ pc[p] = "catch"
    /\ IF LogThrows(Current(p))
       THEN IngestFailed(p) /\ checkedOut' = checkedOut - 1
       ELSE Continue(p, Bump(counters[p], "errors"))
    /\ UNCHANGED <<accessToken, tokenExpiry, configVars, clockVars, dbVars,
                   tempoVars>>

\* stop() { this.isRunning = false }
Stop ==
    /\ isRunning' = FALSE
    /\ UNCHANGED <<lastRun, accessToken, tokenExpiry, configVars, clockVars,
                   dbVars, localVars, unhandled, checkedOut, tempoVars>>

Step(p) ==
    \/ Connect(p)
    \/ Begin(p)
    \/ Select(p)
    \/ InsertAsset(p)
    \/ UpdateAsset(p)
    \/ InsertEvent(p)
    \/ Commit(p)
    \/ Rollback(p)
    \/ Catch(p)

Next ==
    \/ CronTick
    \/ InitialTimer
    \/ \E p \in Procs : TokenResponse(p) \/ FeedResponse(p) \/ Step(p)

\* The started service, driven by its cron ticks and its initial timer.
Spec == Init /\ [][Next]_vars

NextStop ==
    \/ CronTick
    \/ InitialTimer
    \/ Stop
    \/ \E p \in Procs : FeedResponseSmall(p) \/ Step(p)

\* The started service with no feed credentials configured (getAccessToken
\* returns null without a request), with stop() callable at any time.
InitStop == Init /\ ~clientCreds /\ ~basicCreds
SpecStop == InitStop /\ [][NextStop]_vars

NextExit ==
    \/ CronTick
    \/ InitialTimer
    \/ \E p \in Procs : TokenResponse(p) \/ FeedResponseExit(p) \/ Step(p)

\* The service under the scheduling the runtime guarantees: every request
\* and query of an invocation in flight eventually settles (the axios calls
\* carry timeouts of 10 s and 30 s).
FairSpec ==
    /\ Init
    /\ [][NextExit]_vars
    /\ WF_vars(\E p \in Procs : TokenResponse(p) \/ FeedResponseExit(p) \/ Step(p))

NextAuth ==
    \/ CronTick
    \/ InitialTimer
    \/ \E p \in Procs : TokenResponseAny(p) \/ FeedResponseExit(p) \/ Step(p)

\* The started service against a token endpoint whose 200 answers are
\* arbitrary.
SpecAuth == Init /\ [][NextAuth]_vars

\* getStatus(): the status read model (bounds is a constant and left out;
\* username and password are configured together or not at all).
getStatus ==
    [running |-> isRunning,
     lastRun |-> lastRun,
     oauth2_configured |-> clientCreds,
     basic_auth_configured |-> basicCreds,
     token_valid |-> TokenValid(now),
     method |-> IF Truthy(accessToken) THEN "oauth2"
                ELSE IF basicCreds THEN "basic_auth" ELSE "anonymous"]

\* ------------------------------------------- tempoRoutes: POST /calculate
\* Scores are kept in hundredths (5080 is 50.80); every quotient below is
\* exact for whole counts, so the double arithmetic of the handler is
\* followed without rounding error.

\* typical hourly flight count
baselineFlights == 50
baselineShips == 20
baselineNotams == 10
baselineExercises == 2

\* The text node-postgres delivers for COUNT(*) (a bigint).
RECURSIVE NatToDigits(_)
NatToDigits(n) ==
    IF n < 10 THEN <<Digits[n + 1]>>
    ELSE NatToDigits(n \div 10) \o <<Digits[(n % 10) + 1]>>

\* parseInt on text: leading blanks, an optional sign, the longest run of
\* digits; NaN when there is none.
parseInt(v) ==
    IF v.t = "str" THEN parseFloat(v.s) ELSE NaN

MutSubScoreSigned(count, baseline) ==
    ((count - baseline) * 10000) \div baseline

\* Math.max(0, ((count - baseline) / baseline) * 100)
subScore(count, baseline) ==
    LET raw == ((count - baseline) * 10000) \div baseline
    IN IF raw > 0 THEN raw ELSE 0

MutCompositeUncapped(flightScore, shipScore, notamScore, exerciseScore) ==
    (flightScore * 40 + shipScore * 20 + notamScore * 30
        + exerciseScore * 10) \div 100 + 5000

\* Math.min(100, flightScore * 0.4 + shipScore * 0.2 + notamScore * 0.3 +
\*               exerciseScore * 0.1 + 50)
compositeScore(flightScore, shipScore, notamScore, exerciseScore) ==
    LET sum == (flightScore * 40 + shipScore * 20 + notamScore * 30
                   + exerciseScore * 10) \div 100 + 5000
    IN IF sum < 10000 THEN sum ELSE 10000

\* Number.prototype.toFixed(2) of a non-negative score.
toFixed2(h) ==
    NatToDigits(h \div 100) \o <<".">>
        \o <<Digits[((h % 100) \div 10) + 1], Digits[(h % 10) + 1]>>

\* Math.floor(now.getTime() / (60 * 60 * 1000)) * (60 * 60 * 1000)
hourTimestamp(clock) == (clock \div HourMs) * HourMs

\* The parameters of the tempo_scores INSERT, from the four count texts.
ScoreRow(clock, count) ==
    LET flightCount == parseInt(count.flight).n
        shipCount == parseInt(count.ship).n
        notamCount == parseInt(count.notam).n
        exerciseCount == parseInt(count.exercise).n
        flightScore == subScore(flightCount, baselineFlights)
        shipScore == subScore(shipCount, baselineShips)
        notamScore == subScore(notamCount, baselineNotams)
        exerciseScore == subScore(exerciseCount, baselineExercises)
    IN [ts |-> hourTimestamp(clock),
        score |-> toFixed2(compositeScore(flightScore, shipScore,
                                          notamScore, exerciseScore)),
        drivers |-> [flight_score |-> toFixed2(flightScore),
                     ship_score |-> toFixed2(shipScore),
                     notam_score |-> toFixed2(notamScore),
                     exercise_score |-> toFixed2(exerciseScore)],
        flight_count |-> flightCount,
        ship_count |-> shipCount,
        notam_count |-> notamCount,
        exercise_count |-> exerciseCount]

MutInsertScore(scores, row) == scores \cup {row}

\* INSERT INTO tempo_scores ... ON CONFLICT (ts) DO UPDATE SET score,
\* drivers and the four counts  (ts is the primary key)
UpsertScore(scores, row) ==
    {r \in scores : r.ts # row.ts} \cup {row}

\* Rows of ship_events in the last 72 hours, and of notams and exercises
\* active now; these tables are written by other parts of the system.
ShipCounts == {0, 21}
NotamCounts == {10}
ExerciseCounts == {2, 12}

TGoto(r, label, clock, count) ==
    /\ tpc' = [tpc EXCEPT ![r] = label]
    /\ tnow' = [tnow EXCEPT ![r] = clock]
    /\ tcount' = [tcount EXCEPT ![r] = count]

\* catch (error): log, reply 500.  The client is not released here.
CalculateFailed(r) ==
    /\ TGoto(r, "idle", 0, NoCounts)
    /\ UNCHANGED <<tempo_scores, checkedOut>>

\* An authorized POST /calculate arrives: fastify.pg.connect() is issued.
Calculate(r) ==
    /\ tpc[r] = "idle"
    /\ TGoto(r, "connect", 0, NoCounts)
    /\ UNCHANGED <<ingestVars, clockVars, checkedOut, tempo_scores>>

\* connect() settles; now is read and the flight count query is issued.
\* While the pool has no free client the call stays pending.
CalculateConnect(r) ==
    /\ tpc[r] = "connect"
    /\ \/ /\ checkedOut < PoolMax
          /\ TGoto(r, "flights", now, NoCounts)
          /\ checkedOut' = checkedOut + 1
          /\ UNCHANGED tempo_scores
       \/ CalculateFailed(r)
    /\ UNCHANGED <<ingestVars, clockVars>>

\* SELECT COUNT(*) FROM flight_events WHERE ts > hourAgo
CountFlights(r) ==
    /\ tpc[r] = "flights"
    /\ LET hourAgo == tnow[r] - HourMs
           rows == {e \in flight_events : e.ts.n > hourAgo}
       IN \/ /\ TGoto(r, "ships", tnow[r],
                      [tcount[r] EXCEPT
                          !.flight = Str(NatToDigits(Cardinality(rows)))])
             /\ UNCHANGED <<tempo_scores, checkedOut>>
          \/ CalculateFailed(r)
    /\ UNCHANGED <<ingestVars, clockVars>>

\* SELECT COUNT(*) FROM ship_events WHERE ts > now - 72 h
CountShips(r) ==
    /\ tpc[r] = "ships"
    /\ \/ \E n \in ShipCounts :
             /\ TGoto(r, "notams", tnow[r],
                      [tcount[r] EXCEPT !.ship = Str(NatToDigits(n))])
             /\ UNCHANGED <<tempo_scores, checkedOut>>
       \/ CalculateFailed(r)
    /\ UNCHANGED <<ingestVars, clockVars>>

\* SELECT COUNT(*) FROM notams WHERE ts_start <= now AND ...
CountNotams(r) ==
    /\ tpc[r] = "notams"
    /\ \/ \E n \in NotamCounts :
             /\ TGoto(r, "exercises", tnow[r],
                      [tcount[r] EXCEPT !.notam = Str(NatToDigits(n))])
             /\ UNCHANGED <<tempo_scores, checkedOut>>
       \/ CalculateFailed(r)
    /\ UNCHANGED <<ingestVars, clockVars>>

\* SELECT COUNT(*) FROM exercises WHERE ts_start <= now AND ...; the scores
\* are computed and the INSERT is issued.
CountExercises(r) ==
    /\ tpc[r] = "exercises"
    /\ \/ \E n \in ExerciseCounts :
             /\ TGoto(r, "store", tnow[r],
                      [tcount[r] EXCEPT !.exercise = Str(NatToDigits(n))])
             /\ UNCHANGED <<tempo_scores, checkedOut>>
       \/ CalculateFailed(r)
    /\ UNCHANGED <<ingestVars, clockVars>>

\* The INSERT has run: client.release() and the reply.
StoreScore(r) ==
    /\ tpc[r] = "store"
    /\ \/ /\ tempo_scores' = UpsertScore(tempo_scores,
                                         ScoreRow(tnow[r], tcount[r]))
          /\ checkedOut' = checkedOut - 1
          /\ TGoto(r, "idle", 0, NoCounts)
       \/ CalculateFailed(r)
    /\ UNCHANGED <<ingestVars, clockVars>>

\* An hour of wall-clock time passes.
HourPasses ==
    /\ now < NowBase + MaxHours * HourMs
    /\ now' = now + HourMs
    /\ UNCHANGED <<ingestVars, timerPending, checkedOut, tempoVars>>

\* Position events of the last hour as ingestion left them: n rows inside
\* the hour before NowBase and one row exactly an hour old.
SeedAsset ==
    [id |-> 1, type |-> "aircraft", code |-> Hex43C001.s, callsign |-> Null,
     country_code |-> Str(<<"G","B">>)]
SeedEvent(i, ts) ==
    [id |-> i] @@ EventRow(1, LcRec(Num(ts)))
SeedEvents(n) ==
    {SeedEvent(i, BaseSec - i) : i \in 1..n}
        \cup {SeedEvent(n + 1, BaseSec - (HourMs \div 1000))}
SeedCounts == {51}

InitTempo ==
    /\ isRunning = FALSE
    /\ lastRun = Null
    /\ accessToken = Null
    /\ tokenExpiry = Null
    /\ clientCreds = FALSE
    /\ basicCreds = FALSE
    /\ now = NowBase
    /\ timerPending = TRUE
    /\ \/ assets = {} /\ flight_events = {}
       \/ \E n \in SeedCounts :
             assets = {SeedAsset} /\ flight_events = SeedEvents(n)
    /\ pc = [p \in Procs |-> "idle"]
    /\ states = [p \in Procs |-> <<>>]
    /\ idx = [p \in Procs |-> 0]
    /\ assetId = [p \in Procs |-> 0]
    /\ isMilitary = [p \in Procs |-> Null]
    /\ nowAt = [p \in Procs |-> 0]
    /\ tx = [p \in Procs |-> EmptyTx]
    /\ counters = [p \in Procs |-> ZeroCounters]
    /\ auth = [p \in Procs |-> "none"]
    /\ reply = [p \in Procs |-> Null]
    /\ unhandled = FALSE
    /\ checkedOut = 0
    /\ tempo_scores = {}
    /\ tpc = [r \in Requests |-> "idle"]
    /\ tnow = [r \in Requests |-> 0]
    /\ tcount = [r \in Requests |-> NoCounts]

TempoStep(r) ==
    \/ CalculateConnect(r)
    \/ CountFlights(r)
    \/ CountShips(r)
    \/ CountNotams(r)
    \/ CountExercises(r)
    \/ StoreScore(r)

NextTempo ==
    \/ HourPasses
    \/ \E r \in Requests : Calculate(r) \/ TempoStep(r)

\* The tempo handler under requests of authorized users.
SpecTempo == InitTempo /\ [][NextTempo]_vars

\* Everything the started service does of its own accord while the hours
\* pass: the cron task and the timer of OpenSkyService.start are the only
\* timers the program creates, and no request reaches the routes.
NextHours ==
    \/ CronTick
    \/ InitialTimer
    \/ HourPasses
    \/ \E p \in Procs : TokenResponse(p) \/ FeedResponseExit(p) \/ Step(p)

\* The same under the scheduling the runtime guarantees: requests and
\* queries in flight settle, and time goes on.
FairHours ==
    /\ Init
    /\ [][NextHours]_vars
    /\ WF_vars(\E p \in Procs : TokenResponse(p) \/ FeedResponseExit(p) \/ Step(p))
    /\ WF_vars(HourPasses)

\* ------------------------------------------------------------ claims
\* The invocation is between entry and exit of a cycle.
InCycle(p) == pc[p] # "idle"
\* The invocation is inside the record loop of processStates.
OnRecord(p) == pc[p] \notin {"idle", "post", "get", "connect"}
\* The step is a trigger (a cron tick or the initial timer).
TriggerStep == now' # now \/ timerPending' # timerPending

\* C1: at most one ingestion cycle is between entry and exit at any time,
\* and a trigger that arrives while a cycle is running changes nothing: no
\* request is started, the store, the running flag, lastRun and the
\* credential cache stay as they are.
C1_SingleFlight ==
    /\ [](Cardinality({p \in Procs : InCycle(p)}) <= 1)
    /\ [][(isRunning /\ TriggerStep) =>
            UNCHANGED <<serviceVars, dbVars, localVars>>]_vars

\* A tick arrived after the running cycle validated the record it is still
\* working on.
C1_Witness ==
    \E p \in Procs : pc[p] = "commit" /\ nowAt[p] < now /\ isRunning

C3_RecordIsolation ==
    [][\A p \in Procs :
         (pc[p] = "catch" /\ idx[p] < Len(states[p]) /\ pc'[p] # "catch")
            => (pc'[p] = "begin" /\ idx'[p] = idx[p] + 1)]_vars

\* The invocation's COMMIT takes effect in this step.
Committing(p) == pc[p] = "commit" /\ pc'[p] # "commit"

\* C4: position events are unique per (asset, timestamp) in every reachable
\* state; a write whose (asset, timestamp) pair is already stored leaves the
\* number of rows as it was; and the key of a written row is the feed's
\* last-contact time in milliseconds, not the time of ingestion.
C4_EventsUnique ==
    /\ [](\A e1, e2 \in flight_events : SameKey(e1, e2) => e1 = e2)
    /\ [](\A p \in Procs : \A e \in tx[p].events :
            LET lastContact == Current(p).lastContact
            IN e.ts = Num(1000 * (IF lastContact.t = "num" THEN lastContact.n
                                  ELSE DigitsToNat(lastContact.s))))
    /\ [][\A p \in Procs :
            (Committing(p) /\ \E r \in tx[p].events :
                                 \E e \in flight_events : SameKey(e, r))
               => Cardinality(flight_events') = Cardinality(flight_events)]_vars

\* The event of aircraft 43C001 was written by MilRec's cycle and written
\* again with UpdRec's kinematics: one row holds the later values.
C4_Witness ==
    \E a \in assets : \E e \in flight_events :
        /\ a.code = Hex43C001.s
        /\ a.country_code = Str(<<"G","B">>)
        /\ e.asset_id = a.id
        /\ e.ts = Num((BaseSec - 5) * 1000)
        /\ e.lat = Num(520)

\* C5: in every reachable state there is at most one asset per
\* case-normalized code, also when two invocations resolve the same unknown
\* code at the same time.
C5_OneAssetPerCode ==
    \A a1, a2 \in assets :
        toUpperCase(a1.code) = toUpperCase(a2.code) => a1 = a2

\* Two invocations both found no row for the code; one committed its
\* asset, the other's INSERT was refused and its handler is running.
C5_Witness ==
    \E p \in Procs :
        /\ pc[p] = "catch"
        /\ Current(p) \in {MilRec, UpdRec}
        /\ assetId[p] = 0
        /\ \E a \in assets : a.code = toUpperCase(Current(p).icao24.s)

\* The identifier prefixes and callsign prefixes of military interest.
InterestIdPrefixes ==
    { <<"4","3","C">>, <<"4","0","0">>, <<"A","D","F","8">>, <<"A","D","F","9">> }
InterestCallsignPrefixes ==
    { <<"R","R","R">>, <<"A","S","C","O","T">>, <<"K","N","I","F","E">>,
      <<"T","A","R","T","A","N">>, <<"R","E","S","C","U","E">>,
      <<"R","O","Y","A","L">> }
StartsWith(s, prefix) ==
    Len(s) >= Len(prefix) /\ SubSeq(s, 1, Len(prefix)) = prefix
\* The classification the claims state, for a string or null argument.
OfInterest(identifier, callsign) ==
    \/ /\ identifier.t = "str"
       /\ \E prefix \in InterestIdPrefixes :
            StartsWith(toUpperCase(identifier.s), prefix)
    \/ /\ callsign.t = "str"
       /\ \E prefix \in InterestCallsignPrefixes :
            StartsWith(toUpperCase(callsign.s), prefix)

\* C6: a record the classifier rejects causes no write: it never has a
\* pending write, no step taken on it changes a table, and after a first
\* cycle over one military and one civilian record exactly one asset and
\* one position event exist, both for 43C001.
C6_NonMilitaryNoWrite ==
    /\ [](\A p \in Procs :
            (OnRecord(p) /\ Current(p).t = "tuple"
               /\ ~OfInterest(Current(p).icao24, Current(p).callsign))
              => (tx[p] = EmptyTx /\ pc[p] \in {"begin", "rollback"}))
    /\ [][\A p \in Procs :
            (OnRecord(p) /\ Current(p).t = "tuple"
               /\ ~OfInterest(Current(p).icao24, Current(p).callsign)
               /\ pc'[p] # pc[p])
              => UNCHANGED dbVars]_vars
    /\ [](\A p \in Procs :
            (states[p] = ScenarioBatch /\ idx[p] = 2 /\ pc[p] = "rollback"
               /\ counters[p].processed = 1 /\ now = NowBase)
              => /\ Cardinality(assets) = 1
                 /\ Cardinality(flight_events) = 1
                 /\ \A a \in assets : \A e \in flight_events :
                      a.code = Hex43C001.s /\ e.asset_id = a.id)

\* The first cycle has committed 43C001 and has rejected the civilian record.
C6_Witness ==
    \E p \in Procs :
        /\ states[p] = ScenarioBatch /\ idx[p] = 2 /\ pc[p] = "rollback"
        /\ counters[p].processed = 1 /\ now = NowBase
        /\ isMilitary[p] = Bool(FALSE)

\* A value that is a number, or text that reads as one.
IsNumeric(v) ==
    \/ v.t = "num"
    \/ v.t = "str" /\ v.s # <<>> /\ \A i \in 1..Len(v.s) : IsDigit(v.s[i])
NumericValue(v) == IF v.t = "num" THEN v.n ELSE DigitsToNat(v.s)
\* Last contact is positive and inside [clock - 24 h, clock + 1 min].
InWindow(lastContact, clock) ==
    /\ IsNumeric(lastContact)
    /\ NumericValue(lastContact) > 0
    /\ NumericValue(lastContact) * 1000 <= clock + 60000
    /\ NumericValue(lastContact) * 1000 >= clock - 86400000

\* C7: a military record with an identifier, a numeric latitude and
\* longitude (0 included) and a last contact inside the freshness window is
\* never rejected by normalization.
C7_ValidNeverRejected ==
    [][\A p \in Procs :
         (pc'[p] = "rollback" /\ pc[p] # "rollback")
            => LET rec == Current(p)
               IN ~(/\ Truthy(rec.icao24) /\ rec.icao24.t = "str"
                    /\ IsNumeric(rec.latitude) /\ IsNumeric(rec.longitude)
                    /\ InWindow(rec.lastContact, now)
                    /\ OfInterest(rec.icao24, rec.callsign))]_vars

\* C8: a record whose last contact is missing, non-positive, not a number,
\* more than 1 minute ahead of or more than 24 hours behind the time of its
\* validation never has a position event written: every pending event
\* belongs to a record inside the window, and the table changes only by
\* the commit of such a pending event.
C8_BadLastContactRejected ==
    /\ [](\A p \in Procs :
            tx[p].events # {} => InWindow(Current(p).lastContact, nowAt[p]))
    /\ [][flight_events' # flight_events =>
            \E p \in Procs :
                /\ Committing(p)
                /\ tx[p].events # {}
                /\ InWindow(Current(p).lastContact, nowAt[p])]_vars

\* A record 25 hours old was rejected after its asset had been resolved,
\* and the store holds no event with its timestamp.
C8_Witness ==
    \E p \in Procs :
        /\ pc[p] = "rollback"
        /\ Current(p) = LcRec(Num(BaseSec - 90000))
        /\ assetId[p] # 0
        /\ \A e \in flight_events : e.ts # Num((BaseSec - 90000) * 1000)

\* Identifiers and callsigns the classifier is evaluated on.
ClassifierIds ==
    { Null, Hex43C001, Hex43c001, HexAABBCC, HexAABBDD,
      Str(<<"4","3","C","1","2","3">>), Str(<<"4","0","0">>),
      Str(<<"a","d","f","8","1">>), Str(<<"A","D","F","7","0","0">>),
      Str(<<"4","3">>), Str(<<"0","4","3","C","0","1">>) }
ClassifierCallsigns ==
    { Null, CsAscot, CsRrrLower, CsSpeedbird, CsBlank,
      Str(<<"R","R","R","4","4","2","1">>), Str(<<"R","R">>),
      Str(<<" ","R","R","R","1">>), Str(<<"k","n","i","f","e","1">>),
      Str(<<"T","A","R","T","A","N">>), Str(<<"R","E","S","C","U","E","9">>),
      Str(<<"R","o","y","a","l","1">>), Str(<<"X","R","O","Y","A","L">>) }

\* C9: isMilitaryAircraft returns true exactly when the upper-cased
\* identifier starts with a military identifier prefix or the upper-cased
\* callsign starts with a military callsign prefix, a null argument being
\* skipped: on every record the loop classifies, and on every pair of the
\* identifiers and callsigns above (these pairs do not depend on the state
\* and are evaluated before the first trigger).
C9_Classifier ==
    /\ \A p \in Procs :
         isMilitary[p] # Null =>
            isMilitary[p] = Bool(OfInterest(Current(p).icao24, Current(p).callsign))
    /\ (timerPending /\ now = NowBase) =>
         /\ \A id \in ClassifierIds : \A cs \in ClassifierCallsigns :
              isMilitaryAircraft(id, cs) = OfInterest(id, cs)
         /\ isMilitaryAircraft(Str(<<"4","3","C","1","2","3">>), Null)
         /\ ~isMilitaryAircraft(HexAABBCC, CsSpeedbird)
         /\ isMilitaryAircraft(Null, Str(<<"R","R","R","4","4","2","1">>))

\* The loop classified a civilian identifier as military by its lower-case
\* callsign.
C9_Witness ==
    \E p \in Procs :
        /\ OnRecord(p)
        /\ Current(p) = CsMilRec
        /\ isMilitary[p] = Bool(TRUE)

\* The callsign is text with a character that is not blank.
NonBlank(callsign) ==
    callsign.t = "str" /\ \E i \in 1..Len(callsign.s) : callsign.s[i] # " "

\* C10: a committed sighting of an existing asset sets its callsign to the
\* sighting's trimmed callsign when that is not blank and leaves it alone
\* otherwise; no step changes the callsign in another way, and no step
\* changes or removes an asset's code or country code.
C10_CallsignFollowsSightings ==
    [][\A a \in assets :
         \E b \in assets' :
            /\ b.id = a.id
            /\ b.code = a.code
            /\ b.country_code = a.country_code
            /\ b.callsign =
                 IF \E p \in Procs : /\ Committing(p) /\ assetId[p] = a.id
                                     /\ NonBlank(Current(p).callsign)
                 THEN LET p == CHOOSE q \in Procs :
                                 /\ Committing(q) /\ assetId[q] = a.id
                                 /\ NonBlank(Current(q).callsign)
                      IN Str(trim(Current(p).callsign.s))
                 ELSE a.callsign]_vars

\* 43C001 was created without a callsign by a United Kingdom sighting,
\* renamed by UpdRec's padded callsign, and then seen with a blank one.
C10_Witness ==
    /\ \E a \in assets :
         /\ a.code = Hex43C001.s
         /\ a.callsign = Str(<<"A","S","C","O","T","1">>)
         /\ a.country_code = Str(<<"G","B">>)
    /\ \E e \in flight_events : e.lat = Num(521)

\* The invocation's feed request settles in this step.
FeedSettles(p) == pc[p] = "get" /\ pc'[p] # "get"
\* The step starts a cycle in this invocation slot.
CycleStarts(p) == pc[p] = "idle" /\ pc'[p] # "idle"
\* The step ends the invocation's cycle.
CycleEnds(p) == pc[p] # "idle" /\ pc'[p] = "idle"

\* C11: when the feed request of a cycle fails (no response, or a status
\* other than 200), the cycle ends in that step: no record is processed,
\* both tables and lastRun stay as they are, and the running flag is clear.
C11_FetchFailureEndsCycle ==
    [][\A p \in Procs :
         (FeedSettles(p) /\ reply[p].n # 200)
            => /\ pc'[p] = "idle"
               /\ states'[p] = <<>>
               /\ counters'[p] = ZeroCounters
               /\ UNCHANGED dbVars
               /\ lastRun' = lastRun
               /\ ~isRunning']_vars

\* The first cycle stored an asset and recorded its run at service start;
\* the cycle of the next tick used the cached token, was refused, and the
\* service is idle with lastRun as the first cycle left it.
C11_Witness ==
    /\ \A p \in Procs : pc[p] = "idle"
    /\ ~isRunning
    /\ lastRun = Num(NowBase)
    /\ now = NowBase + TickMs
    /\ ~timerPending
    /\ assets # {}
    /\ clientCreds
    /\ accessToken = Null

\* C12: no outcome of the token exchange, the feed request or record
\* processing makes the promise of ingestData reject: the process never
\* sees an unhandled rejection.
C12_NeverRejects == ~unhandled

\* With credentials configured, a cycle has ended by failure (nothing was
\* ever stored, no run was recorded, the cache is empty) and the host has
\* seen no rejection.
C12_Witness ==
    /\ \A p \in Procs : pc[p] = "idle"
    /\ ~isRunning
    /\ ~timerPending
    /\ now > NowBase
    /\ lastRun = Null
    /\ clientCreds
    /\ accessToken = Null
    /\ ~unhandled

\* C13: a cycle whose feed request succeeded records lastRun when it ends,
\* whatever happened to its records, and a cycle whose feed request failed
\* leaves lastRun alone.
C13_LastRunTracksFetch ==
    [][\A p \in Procs :
         CycleEnds(p) =>
            IF pc[p] = "get" /\ reply[p].n # 200
            THEN lastRun' = lastRun
            ELSE lastRun' = Num(now)]_vars

\* The cache holds a token and an expiry the clock has not reached.
CacheFresh(clock) ==
    /\ accessToken.t = "token"
    /\ tokenExpiry.t = "num"
    /\ clock < tokenExpiry.n

\* C14: a cycle that starts while the cached token is before its stored
\* expiry sends the feed request with that token, leaves the cache as it
\* is and issues no credential exchange; an exchange is issued only when
\* the cache is empty or expired and client credentials are configured.
C14_CredentialReuse ==
    [][\A p \in Procs :
         CycleStarts(p) =>
            /\ CacheFresh(now') =>
                  /\ pc'[p] = "get"
                  /\ auth'[p] = "bearer"
                  /\ accessToken' = accessToken
                  /\ tokenExpiry' = tokenExpiry
            /\ pc'[p] = "post" => (~CacheFresh(now') /\ clientCreds)]_vars

\* A feed request carries the token that an earlier, completed cycle
\* already had.
C14_Witness ==
    \E p \in Procs :
        /\ pc[p] = "get"
        /\ auth[p] = "bearer"
        /\ lastRun.t = "num"
        /\ accessToken.t = "token"
        /\ accessToken.at <= lastRun.n

\* C15: whenever a feed request is sent with a bearer token whose stored
\* expiry (real expiry minus the margin) is a time, the clock is before
\* that expiry, on the cached path and on the freshly exchanged path.
C15_TokenNeverStale ==
    [][\A p \in Procs :
         (pc[p] # "get" /\ pc'[p] = "get" /\ auth'[p] = "bearer"
            /\ tokenExpiry'.t = "num")
            => now' < tokenExpiry'.n]_vars

\* C16: without client credentials a cycle sends the feed request
\* unauthenticated; a failed credential exchange clears token and expiry
\* and the feed request is still sent, with basic auth when username and
\* password are configured and anonymously otherwise.
C16_FetchDespiteNoCredential ==
    /\ [][\A p \in Procs :
            (CycleStarts(p) /\ ~clientCreds)
               => (pc'[p] = "get" /\ auth'[p] = "none" /\ reply'[p] # Null)]_vars
    /\ [][\A p \in Procs :
            (pc[p] = "post" /\ pc'[p] # "post")
               => /\ pc'[p] = "get"
                  /\ reply'[p] # Null
                  /\ accessToken' = Null =>
                        /\ tokenExpiry' = Null
                        /\ auth'[p] = IF basicCreds THEN "basic" ELSE "none"]_vars

\* The exchange failed and the feed request went out with basic auth.
C16_Witness ==
    \E p \in Procs :
        /\ pc[p] = "get"
        /\ auth[p] = "basic"
        /\ accessToken = Null
        /\ tokenExpiry = Null

\* C17: an answer of the token endpoint without a token or without a
\* numeric time-to-live is never cached: the cache holds either nothing or
\* a token together with a numeric expiry.
C17_MalformedNeverCached ==
    \/ accessToken = Null /\ tokenExpiry = Null
    \/ accessToken.t = "token" /\ tokenExpiry.t = "num"

\* C18: a feed request answered with 401 clears the cached token and its
\* expiry, and a cycle that starts with an empty cache and configured
\* client credentials issues a credential exchange.
C18_ReauthenticateAfter401 ==
    /\ [][\A p \in Procs :
            (FeedSettles(p) /\ reply[p].n = 401)
               => (accessToken' = Null /\ tokenExpiry' = Null)]_vars
    /\ [][\A p \in Procs :
            (CycleStarts(p) /\ clientCreds /\ accessToken = Null)
               => (pc'[p] = "post" /\ auth'[p] # "bearer")]_vars

\* A cycle that started at the tick after service start found the cache
\* empty and is exchanging credentials again.
C18_Witness ==
    \E p \in Procs :
        /\ pc[p] = "post"
        /\ accessToken = Null
        /\ tokenExpiry = Null
        /\ now = NowBase + TickMs
        /\ ~timerPending
        /\ lastRun = Null

\* C19: a feed request answered with 429 ends the cycle as an empty
\* snapshot does: nothing is raised, zero records are processed and the
\* cycle completes as a successful one.
C19_RateLimitNotFatal ==
    [][\A p \in Procs :
         (FeedSettles(p) /\ reply[p].n = 429)
            => /\ pc'[p] = "idle"
               /\ UNCHANGED dbVars
               /\ lastRun' = Num(now)]_vars

\* The auth mode getStatus reports for the credentials of a feed request.
MethodOf(mode) ==
    CASE mode = "bearer" -> "oauth2"
      [] mode = "basic" -> "basic_auth"
      [] mode = "none" -> "anonymous"

\* C20: the running field of the status snapshot is the single-flight
\* flag, and whenever a feed request is sent the method of the status
\* snapshot names the credentials attached to that request.
C20_StatusMatchesAuthMode ==
    /\ [](getStatus.running = isRunning)
    /\ [][\A p \in Procs :
            (pc[p] # "get" /\ pc'[p] = "get")
               => getStatus'.method = MethodOf(auth'[p])]_vars

\* C26: getCountryCode never raises and never makes a record fail: a
\* military record with a position goes on to its asset lookup whatever its
\* origin country is, with a country code that is null or at most two
\* upper-cased characters.
C26_CountryNeverFatal ==
    [][\A p \in Procs :
         LET rec == Current(p)
         IN (/\ pc[p] = "begin" /\ pc'[p] # "begin"
             /\ rec.t = "tuple"
             /\ ~PositionMissing(rec)
             /\ ~isMilitaryAircraftThrows(rec.icao24, rec.callsign)
             /\ isMilitaryAircraft(rec.icao24, rec.callsign))
            => /\ pc'[p] = "select"
               /\ LET code == getCountryCode(rec.originCountry)
                  IN \/ code = Null
                     \/ /\ Len(code.s) <= 2
                        /\ code.s = toUpperCase(code.s)]_vars

\* C27: ingestion cycles exclude each other also when stop() is called
\* while a cycle is running: no two invocations are between entry and exit
\* at the same time.
C27_StopKeepsExclusion ==
    \A p, q \in Procs : (InCycle(p) /\ InCycle(q)) => p = q

\* C28: the asset writes and the event write of one record commit together:
\* the assets table changes only in the commit of a transaction that also
\* holds the record's position event, a record that is rolled back or whose
\* handler runs leaves the table as it was, and every asset has at least
\* one position event.
C28_AtomicRecord ==
    /\ [](\A a \in assets : \E e \in flight_events : e.asset_id = a.id)
    /\ [][assets' # assets =>
            \E p \in Procs :
                /\ Committing(p)
                /\ tx[p].events # {}
                /\ \A r \in tx[p].events :
                      \E e \in flight_events' : SameKey(e, r)]_vars
    /\ [][\A p \in Procs :
            (pc[p] \in {"rollback", "catch"} /\ pc'[p] # pc[p])
               => assets' = assets]_vars

\* The first record of WindowBatch (43C002 without a last contact) had its
\* asset inserted and was then rolled back; the loop is at the second
\* record and the assets table is still empty.
C28_Witness ==
    \E p \in Procs :
        /\ states[p] = WindowBatch
        /\ idx[p] = 2
        /\ pc[p] = "begin"
        /\ assets = {}

\* The kinematic fields of a position event.
Kinematics(e) ==
    <<e.lat, e.lon, e.alt, e.velocity, e.heading, e.vertical_rate,
      e.on_ground>>

\* C24: the records of a batch are handled in delivery order, one after
\* the other, and a commit leaves exactly one position event for the
\* record's (asset, last contact) whose kinematic fields are all those of
\* the committing record, whether the earlier write came from the same
\* batch or from an earlier cycle.
C24_LastWriteWins ==
    /\ [][\A p \in Procs :
            (OnRecord(p) /\ OnRecord(p)' /\ idx'[p] # idx[p])
               => (idx'[p] = idx[p] + 1 /\ states'[p] = states[p])]_vars
    /\ [][\A p \in Procs :
            Committing(p) =>
               LET row == EventRow(assetId[p], Current(p))
               IN /\ Cardinality({e \in flight_events' : SameKey(e, row)}) = 1
                  /\ \A e \in flight_events' :
                        SameKey(e, row) => Kinematics(e) = Kinematics(row)]_vars

\* MilRec and UpdRec (same aircraft, same last contact) came in one batch,
\* in this order, into an empty store: after the second commit one event
\* exists for the aircraft and it carries UpdRec's values in every field.
C24_Witness ==
    \E p \in Procs :
        /\ states[p] = <<MilRec, UpdRec, CivRec>>
        /\ idx[p] = 3
        /\ lastRun = Null
        /\ Cardinality(flight_events) = 1
        /\ \A e \in flight_events :
              Kinematics(e) = <<Num(520), Num(-2), Num(9000), Null, Null,
                               Num(-3), Bool(TRUE)>>

\* What the claim expects in the column of an optional numeric field: the
\* number, the number a text of digits reads as, and null for a missing
\* value or a text that is no number.
StoredAs(v) ==
    IF v.t = "num" THEN v
    ELSE IF IsNumeric(v) THEN Num(NumericValue(v))
    ELSE Null

Storing(r) ==
    tpc[r] = "store" /\ tpc'[r] = "idle" /\ checkedOut' = checkedOut - 1
\* The row of the hour bucket of a time.
BucketRows(scores, clock) ==
    {row \in scores : row.ts = clock - (clock % HourMs)}
\* The hundredths a stored score text ("54.80") stands for.
Hundredths(text) ==
    LET whole == DigitPrefix(text)
        frac == SubSeq(text, Len(whole) + 2, Len(text))
    IN DigitsToNat(whole) * 100 + DigitsToNat(frac)
\* s (in hundredths) is max(0, (count - baseline) / baseline * 100).
IsSubScore(s, count, baseline) ==
    IF count > baseline THEN s * baseline = (count - baseline) * 10000
    ELSE s = 0
\* c (in hundredths) is min(100, 0.4 f + 0.2 s + 0.3 n + 0.1 e + 50).
IsComposite(c, f, s, n, e) ==
    IF 4 * f + 2 * s + 3 * n + e >= 50000
    THEN c = 10000
    ELSE 10 * c = 4 * f + 2 * s + 3 * n + e + 50000
\* Counts the scoring is evaluated on, around every baseline and cap.
FlightGrid == {0, 1, 49, 50, 51, 100, 174, 175, 176, 300}
ShipGrid == {0, 19, 20, 21, 45, 69, 70, 71, 200}
NotamGrid == {0, 9, 10, 11, 26, 27, 100}
ExerciseGrid == {0, 1, 2, 3, 11, 12, 13, 50}
\* No tempo computation has started yet.
TempoFresh ==
    /\ tempo_scores = {} /\ now = NowBase /\ checkedOut = 0
    /\ \A r \in Requests : tpc[r] = "idle"

\* C21: each sub-score is max(0, (count - baseline) / baseline * 100) with
\* baselines 50, 20, 10 and 2, the composite is min(100, 0.4 flight +
\* 0.2 ship + 0.3 notice + 0.1 exercise + 50) and lies within [0, 100]:
\* for the counts of a grid, and for the row every computation stores.
C21_ScoreFormula ==
    /\ [](TempoFresh =>
            \A f \in FlightGrid, s \in ShipGrid, n \in NotamGrid,
               e \in ExerciseGrid :
                LET fs == subScore(f, baselineFlights)
                    ss == subScore(s, baselineShips)
                    ns == subScore(n, baselineNotams)
                    es == subScore(e, baselineExercises)
                    c == compositeScore(fs, ss, ns, es)
                IN /\ IsSubScore(fs, f, 50) /\ IsSubScore(ss, s, 20)
                   /\ IsSubScore(ns, n, 10) /\ IsSubScore(es, e, 2)
                   /\ IsComposite(c, fs, ss, ns, es)
                   /\ 0 <= c /\ c <= 10000)
    /\ [][\A r \in Requests :
            Storing(r) =>
               \E row \in BucketRows(tempo_scores', tnow[r]) :
                  LET fs == Hundredths(row.drivers.flight_score)
                      ss == Hundredths(row.drivers.ship_score)
                      ns == Hundredths(row.drivers.notam_score)
                      es == Hundredths(row.drivers.exercise_score)
                      c == Hundredths(row.score)
                  IN /\ row.flight_count = DigitsToNat(tcount[r].flight.s)
                     /\ row.ship_count = DigitsToNat(tcount[r].ship.s)
                     /\ row.notam_count = DigitsToNat(tcount[r].notam.s)
                     /\ row.exercise_count = DigitsToNat(tcount[r].exercise.s)
                     /\ IsSubScore(fs, row.flight_count, 50)
                     /\ IsSubScore(ss, row.ship_count, 20)
                     /\ IsSubScore(ns, row.notam_count, 10)
                     /\ IsSubScore(es, row.exercise_count, 2)
                     /\ IsComposite(c, fs, ss, ns, es)
                     /\ 0 <= c /\ c <= 10000]_vars

\* The stored rows include one below the cap (51 flights, no ships, 10
\* notices, 2 exercises: 50.80) and one at the cap (12 exercises: 100.00).
C21_Witness ==
    /\ \E row \in tempo_scores :
          /\ row.flight_count = 51 /\ row.ship_count = 0
          /\ row.notam_count = 10 /\ row.exercise_count = 2
          /\ row.score = <<"5","0",".","8","0">>
          /\ row.drivers.flight_score = <<"2",".","0","0">>
    /\ \E row \in tempo_scores :
          /\ row.flight_count = 0 /\ row.exercise_count = 12
          /\ row.score = <<"1","0","0",".","0","0">>

\* The composite (in hundredths) the handler computes for four counts.
CompositeOf(f, s, n, e) ==
    compositeScore(subScore(f, baselineFlights), subScore(s, baselineShips),
                   subScore(n, baselineNotams),
                   subScore(e, baselineExercises))
\* Every count is at or below its baseline.
AtOrBelowBaselines(f, s, n, e) == f <= 50 /\ s <= 20 /\ n <= 10 /\ e <= 2

\* C30: the composite never falls when one of the four counts rises, it is
\* never below 50, and it is 50 exactly when every count is at or below
\* its baseline: for the counts of a grid, and for the rows stored.
C30_CompositeMonotone ==
    /\ TempoFresh =>
         \A f \in FlightGrid, s \in ShipGrid, n \in NotamGrid,
            e \in ExerciseGrid :
             LET c == CompositeOf(f, s, n, e)
             IN /\ c >= 5000
                /\ (c = 5000) <=> AtOrBelowBaselines(f, s, n, e)
                /\ \A f2 \in FlightGrid : f2 >= f => CompositeOf(f2, s, n, e) >= c
                /\ \A s2 \in ShipGrid : s2 >= s => CompositeOf(f, s2, n, e) >= c
                /\ \A n2 \in NotamGrid : n2 >= n => CompositeOf(f, s, n2, e) >= c
                /\ \A e2 \in ExerciseGrid :
                      e2 >= e => CompositeOf(f, s, n, e2) >= c
    /\ \A row \in tempo_scores :
          /\ Hundredths(row.score) >= 5000
          /\ (Hundredths(row.score) = 5000) <=>
                AtOrBelowBaselines(row.flight_count, row.ship_count,
                                   row.notam_count, row.exercise_count)
          /\ \A other \in tempo_scores :
                (/\ other.flight_count >= row.flight_count
                 /\ other.ship_count >= row.ship_count
                 /\ other.notam_count >= row.notam_count
                 /\ other.exercise_count >= row.exercise_count)
                   => Hundredths(other.score) >= Hundredths(row.score)

\* One hour was scored with every count at or below its baseline (50.00)
\* and another with more flights and ships and the same notices and
\* exercises (51.80).
C30_Witness ==
    /\ \E row \in tempo_scores :
          /\ row.flight_count = 0 /\ row.ship_count = 0
          /\ row.notam_count = 10 /\ row.exercise_count = 2
          /\ row.score = <<"5","0",".","0","0">>
    /\ \E row \in tempo_scores :
          /\ row.flight_count = 51 /\ row.ship_count = 21
          /\ row.notam_count = 10 /\ row.exercise_count = 2
          /\ row.score = <<"5","1",".","8","0">>

\* The four counts of a stored row are those of the handler's results.
SameCounts(row, count) ==
    /\ row.flight_count = DigitsToNat(count.flight.s)
    /\ row.ship_count = DigitsToNat(count.ship.s)
    /\ row.notam_count = DigitsToNat(count.notam.s)
    /\ row.exercise_count = DigitsToNat(count.exercise.s)

\* C22: tempo_scores holds one row per whole-hour bucket in which a
\* computation ran, keyed by the computation time truncated to the hour:
\* rows change only by a computation's write, which leaves the other
\* buckets alone and exactly one row for its own bucket, with score,
\* breakdown and counts of this computation; when the counts are those of
\* the row already stored the table is left identical.
C22_OneRowPerHour ==
    /\ [](\A r1, r2 \in tempo_scores :
            /\ r1.ts % HourMs = 0
            /\ r1.ts = r2.ts => r1 = r2)
    /\ [][tempo_scores' # tempo_scores => \E r \in Requests : Storing(r)]_vars
    /\ [][\A r \in Requests :
            Storing(r) =>
               LET mine == BucketRows(tempo_scores', tnow[r])
                   old == BucketRows(tempo_scores, tnow[r])
               IN /\ Cardinality(mine) = 1
                  /\ tempo_scores' \ mine = tempo_scores \ old
                  /\ \A row \in mine :
                        /\ row.ts <= tnow[r] /\ tnow[r] < row.ts + HourMs
                        /\ SameCounts(row, tcount[r])
                        /\ row.score = ScoreRow(tnow[r], tcount[r]).score
                        /\ row.drivers = ScoreRow(tnow[r], tcount[r]).drivers
                  /\ (\E row \in old : SameCounts(row, tcount[r]))
                        => tempo_scores' = tempo_scores]_vars

\* Both hours have their row, and a computation of the later hour is at
\* its INSERT with counts other than those of the row it will overwrite.
C22_Witness ==
    /\ Cardinality(tempo_scores) = 2
    /\ \E r \in Requests :
          /\ tpc[r] = "store"
          /\ tnow[r] = NowBase + HourMs
          /\ \E row \in BucketRows(tempo_scores, tnow[r]) :
                ~SameCounts(row, tcount[r])

\* C29: every client taken from the pool by processStates or by the tempo
\* handler is released on every exit path: whenever no ingestion cycle and
\* no tempo computation is in progress, no client is checked out.
C29_ConnectionsReleased ==
    ((\A p \in Procs : ~InCycle(p)) /\ (\A r \in Requests : tpc[r] = "idle"))
        => checkedOut = 0

\* C23: the started service computes the tempo score every hour by
\* itself: whenever an hour has elapsed, a tempo computation is eventually
\* in progress, without a request from outside.
C23_HourlyTempo ==
    \A h \in 1..MaxHours :
        (now >= NowBase + h * HourMs) ~> (\E r \in Requests : tpc[r] # "idle")

====
